---- MODULE Spec2Model ----
(***************************************************************************)
(* Model of index.js, the Google Maps business extractor: run() (browser   *)
(* session, discovery, batch loop, output), collectUrls() (scroll loop and *)
(* href collection) and extractDetails() (the in-page field extraction).   *)
(*                                                                         *)
(* A JavaScript string is a sequence of one-character strings, so that     *)
(* cleanText, removeLabel, split, match and includes are computed on the   *)
(* characters as the code computes them.                                   *)
(***************************************************************************)
EXTENDS Integers, Sequences, FiniteSets, TLC

\* ------------------------------------------------------------------------
\* Bounds of the model and program constants
\* ------------------------------------------------------------------------

\* largest CONFIG.maxResults / maxItems tried
MaxItemsBound == 3
\* largest CONFIG.batchSize tried
MaxBatchBound == 2
\* most anchors the results page renders
MaxAnchors == 3
\* the iteration counter (a history variable) saturates here
IterCap == 10
\* most elements of a detail page
MaxEls == 2
\* the count of backward scrolls (a history variable) saturates here
WiggleCap == 2

\* let distance = 800
distance == 800
\* container.scrollBy(0, -300)
wiggle == 300
\* if (retries === 2)
wiggleAt == 2
\* if (retries > 8) break
hardCap == 8
\* possiblePhone.match(/[...]{5,}/)
phoneRun == 5
\* if (possibleAddr.length > 5)
addrMin == 5

\* ------------------------------------------------------------------------
\* Strings
\* ------------------------------------------------------------------------

\* null / undefined (a missing element, a missing attribute, a null return)
Null == <<"null">>

NA == <<"N", "/", "A">>
Zero == <<"0">>
GoogleMaps == <<"G", "o", "o", "g", "l", "e", " ", "M", "a", "p", "s">>
StarsMarker == <<"s", "t", "a", "r", "s">>
ReviewsMarker == <<"r", "e", "v", "i", "e", "w", "s">>
AddressLabel == <<"A", "d", "d", "r", "e", "s", "s", ":">>
PhoneLabel == <<"P", "h", "o", "n", "e", ":">>
WebsiteLabel == <<"W", "e", "b", "s", "i", "t", "e", ":">>
AddressWord == <<"a", "d", "d", "r", "e", "s", "s">>
PhoneWord == <<"p", "h", "o", "n", "e">>
WebsiteWord == <<"w", "e", "b", "s", "i", "t", "e">>
AuthorityId == <<"a", "u", "t", "h", "o", "r", "i", "t", "y">>
HttpPrefix == <<"h", "t", "t", "p">>

\* \s of a JavaScript regular expression and of trim(), on the characters used
WhiteSpace == {" ", "\t", "\n", "\r"}
\* [\r\n]
LineBreaks == {"\n", "\r"}
\* \d
Digits == {"0", "1", "2", "3", "4", "5", "6", "7", "8", "9"}
\* [0-9,]
DigitsCommas == Digits \cup {","}
\* [\d\+\-\(\)\s]
PhoneChars == Digits \cup {"+", "-", "(", ")"} \cup WhiteSpace

UpperCase == <<"A", "B", "C", "D", "E", "F", "G", "H", "I", "J", "K", "L", "M",
               "N", "O", "P", "Q", "R", "S", "T", "U", "V", "W", "X", "Y", "Z">>
LowerCase == <<"a", "b", "c", "d", "e", "f", "g", "h", "i", "j", "k", "l", "m",
               "n", "o", "p", "q", "r", "s", "t", "u", "v", "w", "x", "y", "z">>

\* the /i flag: compare letters without case
toLower(c) ==
    IF \E k \in 1..26 : UpperCase[k] = c
    THEN LowerCase[CHOOSE k \in 1..26 : UpperCase[k] = c]
    ELSE c

lowered(s) == [k \in 1..Len(s) |-> toLower(s[k])]

\* a || b on strings: null and '' are falsy
Or(a, b) == IF a = Null \/ a = <<>> THEN b ELSE a

\* s.startsWith(p)
startsWith(s, p) == Len(s) >= Len(p) /\ SubSeq(s, 1, Len(p)) = p

\* s.includes(p)
includes(s, p) ==
    \E k \in 1..(Len(s) - Len(p) + 1) : SubSeq(s, k, k + Len(p) - 1) = p

\* s.replace(/[cls]+/g, ' '): every maximal run of cls becomes one space
RECURSIVE replaceRuns(_, _, _)
replaceRuns(s, cls, inRun) ==
    IF s = <<>> THEN <<>>
    ELSE IF Head(s) \in cls
         THEN (IF inRun THEN <<>> ELSE <<" ">>) \o replaceRuns(Tail(s), cls, TRUE)
         ELSE <<Head(s)>> \o replaceRuns(Tail(s), cls, FALSE)

\* number of leading characters of s in cls
RECURSIVE leading(_, _)
leading(s, cls) ==
    IF s = <<>> \/ Head(s) \notin cls THEN 0 ELSE 1 + leading(Tail(s), cls)

\* number of trailing characters of s in cls
RECURSIVE trailing(_, _)
trailing(s, cls) ==
    IF s = <<>> \/ s[Len(s)] \notin cls THEN 0
    ELSE 1 + trailing(SubSeq(s, 1, Len(s) - 1), cls)

\* s.trim()
trim(s) ==
    LET a == leading(s, WhiteSpace)
    IN  IF a = Len(s) THEN <<>>
        ELSE SubSeq(s, a + 1, Len(s) - trailing(s, WhiteSpace))

\* const cleanText = (str) => str ? str.replace(/[\r\n]+/g, ' ').replace(/\s+/g, ' ').trim() : ''
cleanText(str) ==
    IF str = Null \/ str = <<>> THEN <<>>
    ELSE trim(replaceRuns(replaceRuns(str, LineBreaks, FALSE), WhiteSpace, FALSE))

\* str.replace(/^Word:?\s*/i, ''): the text after the label, or str when the
\* label is not at the start
stripLabel(str, word) ==
    IF ~startsWith(lowered(str), word) THEN str
    ELSE LET r1 == SubSeq(str, Len(word) + 1, Len(str))
             r2 == IF r1 # <<>> /\ Head(r1) = ":" THEN Tail(r1) ELSE r1
         IN  SubSeq(r2, leading(r2, WhiteSpace) + 1, Len(r2))

\* const removeLabel = (str, regex) => str.replace(regex, '').trim()
removeLabel(str, word) == trim(stripLabel(str, word))

\* label.split(' ')[0]
firstToken(s) ==
    IF \E k \in 1..Len(s) : s[k] = " "
    THEN SubSeq(s, 1, (CHOOSE k \in 1..Len(s) :
                          s[k] = " " /\ \A m \in 1..(k - 1) : s[m] # " ") - 1)
    ELSE s

\* label.match(/([0-9,]+)/): the first maximal run of digits and commas, or null
matchDigitsCommas(s) ==
    IF \A k \in 1..Len(s) : s[k] \notin DigitsCommas THEN Null
    ELSE LET a == CHOOSE k \in 1..Len(s) :
                     s[k] \in DigitsCommas /\ \A m \in 1..(k - 1) : s[m] \notin DigitsCommas
             rest == SubSeq(s, a, Len(s))
         IN  SubSeq(rest, 1, leading(rest, DigitsCommas))

\* m.replace(/,/g, '')
stripCommas(s) == SelectSeq(s, LAMBDA c : c # ",")

\* possiblePhone.match(/[\d\+\-\(\)\s]{5,}/): some run of 5 or more of the class
phoneMatch(s) ==
    \E k \in 1..(Len(s) - phoneRun + 1) :
        \A m \in k..(k + phoneRun - 1) : s[m] \in PhoneChars

\* ------------------------------------------------------------------------
\* Detail pages: the inputs of extractDetails
\* ------------------------------------------------------------------------

AcmePlumbing == <<"A", "c", "m", "e", " ", "P", "l", "u", "m", "b", "i", "n", "g">>
JoesCafeRaw == <<" ", " ", "J", "o", "e", "'", "s", "\n", " ", "C", "a", "f", "e", " ", " ">>
JoesCafe == <<"J", "o", "e", "'", "s", " ", "C", "a", "f", "e">>
Blank == <<" ", "\n", "\t">>
Stars45 == <<"4", ".", "5", " ", "s", "t", "a", "r", "s">>
Rating45 == <<"4", ".", "5">>
Reviews1234 == <<"1", ",", "2", "3", "4", " ", "r", "e", "v", "i", "e", "w", "s">>
Count1234 == <<"1", "2", "3", "4">>
ReviewsComma == <<"r", "e", "v", "i", "e", "w", "s", ",", " ", "1", "2">>
PhoneAria == <<"P", "h", "o", "n", "e", ":", " ", "+", "1", " ", "(", "5", "5", "5", ")", " ", "1", "2", "3", "-", "4", "5", "6", "7">>
PhoneNumber == <<"+", "1", " ", "(", "5", "5", "5", ")", " ", "1", "2", "3", "-", "4", "5", "6", "7">>
PhoneTelId == <<"p", "h", "o", "n", "e", ":", "t", "e", "l", ":", "+", "1", "5", "5", "5", "1", "2", "3", "4", "5", "6", "7">>
CallUsNow == <<"C", "a", "l", "l", " ", "u", "s", " ", "n", "o", "w">>
PhoneDashes == <<"P", "h", "o", "n", "e", ":", " ", "-", " ", "-", " ", "-">>
PhoneShort == <<"P", "h", "o", "n", "e", ":", " ", "9", "1", "1">>
AddrLong == <<"A", "d", "d", "r", "e", "s", "s", ":", " ", "1", "2", " ", "M", "a", "i", "n", " ", "S", "t">>
AddrShort == <<"A", "d", "d", "r", "e", "s", "s", ":", " ", "A", "g", "r", "a">>
AddrHill == <<"A", "d", "d", "r", "e", "s", "s", ":", " ", "7", " ", "H", "i", "l", "l", " ", "R", "o", "a", "d">>
HillRoad == <<"7", " ", "H", "i", "l", "l", " ", "R", "o", "a", "d">>
AcmeUrl == <<"h", "t", "t", "p", "s", ":", "/", "/", "a", "c", "m", "e", ".", "e", "x", "a", "m", "p", "l", "e">>
OtherUrl == <<"h", "t", "t", "p", "s", ":", "/", "/", "o", "t", "h", "e", "r", ".", "e", "x", "a", "m", "p", "l", "e">>
WebsiteText == <<"a", "c", "m", "e", ".", "e", "x", "a", "m", "p", "l", "e">>

\* one element of the detail page: its tag, aria-label, innerText,
\* data-item-id and href (Null when absent), and whether it lies inside
\* div[role="main"]
El(tag, aria, text, id, href, main) ==
    [tag |-> tag, aria |-> aria, text |-> text, id |-> id, href |-> href, main |-> main]

ratingSpan == El("SPAN", Stars45, <<>>, Null, Null, TRUE)
reviewsBtn == El("BUTTON", Reviews1234, <<>>, Null, Null, TRUE)
reviewsCommaBtn == El("BUTTON", ReviewsComma, <<>>, Null, Null, TRUE)
phoneBtn == El("BUTTON", PhoneAria, <<>>, PhoneTelId, Null, TRUE)
callBtn == El("BUTTON", Null, CallUsNow, PhoneWord, Null, TRUE)
dashBtn == El("BUTTON", PhoneDashes, <<>>, Null, Null, TRUE)
shortPhoneBtn == El("BUTTON", PhoneShort, <<>>, Null, Null, TRUE)
addrBtn == El("BUTTON", AddrLong, <<>>, AddressWord, Null, TRUE)
addrShortBtn == El("BUTTON", AddrShort, <<>>, AddressWord, Null, TRUE)
addrTextBtn == El("BUTTON", Null, AddrHill, Null, Null, TRUE)
siteLink == El("A", Null, WebsiteText, AuthorityId, AcmeUrl, TRUE)
siteLinkOutside == El("A", Null, WebsiteText, AuthorityId, AcmeUrl, FALSE)
websiteBareBtn == El("BUTTON", WebsiteLabel, <<>>, Null, Null, TRUE)
siteDiv == El("DIV", Null, WebsiteText, AuthorityId, Null, TRUE)
otherLink == El("A", Null, <<>>, Null, OtherUrl, TRUE)

Elements ==
    {ratingSpan, reviewsBtn, reviewsCommaBtn, phoneBtn, callBtn, dashBtn,
     shortPhoneBtn, addrBtn, addrShortBtn, addrTextBtn, siteLink, siteLinkOutside,
     websiteBareBtn, siteDiv, otherLink}

\* innerText of the h1, Null when the page has no h1
Headings == {Null, <<>>, Blank, AcmePlumbing, GoogleMaps, JoesCafeRaw}

SeqsUpTo(S, n) == UNION {[1..k -> S] : k \in 0..n}

\* the detail pages extractDetails is tried on
Docs == [h1 : Headings, els : SeqsUpTo(Elements, MaxEls)]

\* the detail pages a candidate of a run may show
RunDocs == [h1 : {Null, Blank, AcmePlumbing, GoogleMaps}, els : {<<>>, <<phoneBtn>>}]

\* ------------------------------------------------------------------------
\* extractDetails: the selectors and the per-element step of the scan
\* ------------------------------------------------------------------------

\* div[role="main"] span[aria-label*="stars"]
isRatingEl(el) ==
    el.main /\ el.tag = "SPAN" /\ el.aria # Null /\ includes(el.aria, StarsMarker)

\* div[role="main"] button[aria-label*="reviews"]
isReviewsEl(el) ==
    el.main /\ el.tag = "BUTTON" /\ el.aria # Null /\ includes(el.aria, ReviewsMarker)

\* div[role="main"] button, div[role="main"] a, div[role="main"] div[data-item-id]
isScanned(el) ==
    el.main /\ (el.tag \in {"BUTTON", "A"} \/ (el.tag = "DIV" /\ el.id # Null))

\* a[href^="http"] with data-item-id 'authority', anywhere in the document
isWebLink(el) ==
    el.tag = "A" /\ el.href # Null /\ startsWith(el.href, HttpPrefix) /\ el.id = AuthorityId

\* the name without cleanText
nameOfRaw(d) == Or(d.h1, <<>>)

\* cleanText(document.querySelector('h1')?.innerText || '')
nameOf(d) == cleanText(Or(d.h1, <<>>))

\* document.querySelector(...): the first match in document order, here the
\* head of the matches, null when there is none
\* ratingEl ? ratingEl.getAttribute('aria-label').split(' ')[0] : 'N/A'
ratingOf(d) ==
    LET ratingEl == SelectSeq(d.els, isRatingEl)
    IN  IF ratingEl # <<>> THEN firstToken(Head(ratingEl).aria) ELSE NA

\* reviewsMatch ? reviewsMatch[1].replace(/,/g, '') : '0'
reviewsOf(d) ==
    LET reviewsEl == SelectSeq(d.els, isReviewsEl)
        reviewsMatch == IF reviewsEl # <<>> THEN matchDigitsCommas(Head(reviewsEl).aria)
                        ELSE Null
    IN  IF reviewsMatch # Null THEN stripCommas(reviewsMatch) ELSE Zero

\* cleanText(aria || text) of an element
contentOf(el) == cleanText(Or(Or(el.aria, <<>>), Or(el.text, <<>>)))

isAddressEl(el) == Or(el.id, <<>>) = AddressWord \/ includes(contentOf(el), AddressLabel)

isPhoneEl(el) == startsWith(Or(el.id, <<>>), PhoneWord) \/ includes(contentOf(el), PhoneLabel)

isWebsiteEl(el) == Or(el.id, <<>>) = AuthorityId \/ includes(contentOf(el), WebsiteLabel)

\* the address test accepting every text that is not empty
addressValidNonEmpty(possibleAddr) == Len(possibleAddr) > 0

\* if (possibleAddr.length > 5)
addressValid(possibleAddr) == Len(possibleAddr) > addrMin

\* the phone test asking for a digit as well
phoneValidWithDigit(possiblePhone) ==
    phoneMatch(possiblePhone) /\ \E k \in 1..Len(possiblePhone) : possiblePhone[k] \in Digits

\* if (possiblePhone.match(/[\d\+\-\(\)\s]{5,}/))
phoneValid(possiblePhone) == phoneMatch(possiblePhone)

\* the body of elements.forEach: the fields after element el, from the fields acc
scanElement(acc, el) ==
    LET content == contentOf(el)
        href == Or(el.href, <<>>)
        possibleAddr == removeLabel(content, AddressWord)
        possiblePhone == removeLabel(content, PhoneWord)
    IN  [address |-> IF isAddressEl(el) /\ addressValid(possibleAddr)
                     THEN possibleAddr ELSE acc.address,
         phone   |-> IF isPhoneEl(el) /\ phoneValid(possiblePhone)
                     THEN possiblePhone ELSE acc.phone,
         website |-> IF isWebsiteEl(el)
                     THEN (IF el.tag = "A" /\ href # <<>> THEN href
                           ELSE removeLabel(content, WebsiteWord))
                     ELSE acc.website]

\* the return without the fallback: the website as the scan left it
websiteNoFallback(d, website) == website

\* the fallback for the website after the scan
websiteFallback(d, website) ==
    LET webLink == SelectSeq(d.els, isWebLink)
    IN  IF website = NA /\ webLink # <<>> THEN cleanText(Head(webLink).href) ELSE website

\* return null
NullData == [isNull |-> TRUE]

\* return { name, phone, address, website, rating, reviews, url }
Record(name, fields, rating, reviews, website, currentUrl) ==
    [isNull |-> FALSE, name |-> name, phone |-> fields.phone,
     address |-> fields.address, website |-> website,
     rating |-> rating, reviews |-> reviews, url |-> currentUrl]

\* ------------------------------------------------------------------------
\* Results page: the inputs of collectUrls
\* ------------------------------------------------------------------------

\* the hrefs an anchor a[href*="/maps/place/"] may carry
Hrefs == {"/maps/place/a", "/maps/place/b", "/maps/place/c"}

\* the values container.scrollHeight takes; the smallest is the height of the
\* container's own box (scrollHeight is never below clientHeight)
Extents == {600, 1400}

clientHeight == CHOOSE e \in Extents : \A f \in Extents : e <= f

Min(a, b) == IF a <= b THEN a ELSE b

Max(a, b) == IF a >= b THEN a ELSE b

\* the scroll position the browser keeps: within 0 .. scrollHeight - clientHeight
clampTop(top, height) == Max(0, Min(top, height - clientHeight))

\* lazy loading appends anchors to the rendered list
Grow(as) == {as \o t : t \in SeqsUpTo(Hrefs, MaxAnchors - Len(as))}

\* hrefs.forEach(h => urls.add(h)) then Array.from(urls): a Set keeps the
\* first occurrence of each value, in insertion order
RECURSIVE addAll(_, _)
addAll(urls, hrefs) ==
    IF hrefs = <<>> THEN urls
    ELSE addAll(IF \E k \in 1..Len(urls) : urls[k] = Head(hrefs)
                THEN urls ELSE Append(urls, Head(hrefs)),
                Tail(hrefs))

\* arr.slice(0, n)
slice(arr, n) == SubSeq(arr, 1, Min(n, Len(arr)))

\* collected without the Set: the hrefs as read, cut to maxItems
collectedNoSet(hrefs, maxItems) == slice(hrefs, maxItems)

\* return Array.from(urls).slice(0, maxItems)
collected(hrefs, maxItems) == slice(addAll(<<>>, hrefs), maxItems)

\* ------------------------------------------------------------------------
\* State
\* ------------------------------------------------------------------------

VARIABLES
    pc,            \* position of run()
    maxResults,    \* CONFIG.maxResults
    batchSize,     \* CONFIG.batchSize
    browser,       \* "none", "open", "closed"
    closeCalls,    \* calls of browser.close()
    usedAfterClose,\* a page operation was issued after browser.close()
    feedFailed,    \* the wait for div[role="feed"] timed out
    collectCalled, \* collectUrls was called
    anchors,       \* hrefs of the rendered anchors, in document order
    scrollHeight,  \* container.scrollHeight
    scrollTop,     \* container.scrollTop
    sh,            \* const sh of the current iteration
    retries,       \* let retries
    iters,         \* iterations of while (true) so far (saturating)
    wiggles,       \* calls of container.scrollBy(0, -300) so far (saturating)
    extentChanged, \* some iteration saw scrollHeight !== sh
    envStatic,     \* anchors and scrollHeight never changed since the feed appeared
    stop,          \* which break ended the loop
    businessUrls,  \* const businessUrls
    i, j,          \* the loop indices of phase 2
    url,           \* const url = batch[j]
    visited,       \* urls page.goto was called with, in order
    outcomes,      \* what the console reported per candidate: Extracted, Skipped, Error
    doc,           \* the detail page shown
    h1TimedOut,    \* waitForSelector('h1') timed out for the current candidate
    scan,          \* position and locals of the function evaluated by extractDetails
    data,          \* const data = await extractDetails(page, url)
    extractedData, \* let extractedData
    csvWritten, pdfWritten, notified

vars == <<pc, maxResults, batchSize, browser, closeCalls, usedAfterClose, feedFailed,
          collectCalled, anchors, scrollHeight, scrollTop, sh, retries, iters,
          wiggles, extentChanged, envStatic, stop, businessUrls, i, j, url, visited, outcomes,
          doc, h1TimedOut, scan, data, extractedData, csvWritten, pdfWritten, notified>>

sessionVars == <<browser, closeCalls>>
configVars == <<maxResults, batchSize>>
feedVars == <<anchors, scrollHeight, scrollTop>>
loopVars == <<sh, retries, iters, wiggles, extentChanged, envStatic, stop>>
visitVars == <<i, j, url, visited, outcomes, doc, h1TimedOut>>
evalVars == <<scan, data>>
outputVars == <<csvWritten, pdfWritten, notified>>

NoDoc == [h1 |-> Null, els |-> <<>>]

\* the evaluated function has not started
ScanIdle == [pc |-> "start"]

\* before the results page is shown, and after it is left
FeedGone == /\ anchors' = <<>>
            /\ scrollHeight' = clientHeight
            /\ scrollTop' = 0

LoopReset == /\ sh' = 0
             /\ retries' = 0
             /\ iters' = 0
             /\ wiggles' = 0
             /\ extentChanged' = FALSE
             /\ envStatic' = TRUE
             /\ stop' = "none"

\* a page operation: records whether the session was already closed
PageOp == usedAfterClose' = (usedAfterClose \/ browser = "closed")

Init ==
    /\ pc = "launch"
    /\ maxResults \in 0..MaxItemsBound
    /\ batchSize \in 1..MaxBatchBound
    /\ browser = "none"
    /\ closeCalls = 0
    /\ usedAfterClose = FALSE
    /\ feedFailed = FALSE
    /\ collectCalled = FALSE
    /\ anchors = <<>>
    /\ scrollHeight = clientHeight
    /\ scrollTop = 0
    /\ sh = 0
    /\ retries = 0
    /\ iters = 0
    /\ wiggles = 0
    /\ extentChanged = FALSE
    /\ envStatic = TRUE
    /\ stop = "none"
    /\ businessUrls = <<>>
    /\ i = 0
    /\ j = 0
    /\ url = ""
    /\ visited = <<>>
    /\ outcomes = <<>>
    /\ doc = NoDoc
    /\ h1TimedOut = FALSE
    /\ scan = ScanIdle
    /\ data = NullData
    /\ extractedData = <<>>
    /\ csvWritten = FALSE
    /\ pdfWritten = FALSE
    /\ notified = FALSE

\* ------------------------------------------------------------------------
\* run(): session and phase 1
\* ------------------------------------------------------------------------

\* const browser = await puppeteer.launch(...)
Launch(ok) ==
    /\ pc = "launch"
    /\ browser' = IF ok THEN "open" ELSE "none"
    /\ pc' = IF ok THEN "newPage" ELSE "rejected"
    /\ UNCHANGED <<closeCalls, usedAfterClose, feedFailed, collectCalled, configVars,
                   feedVars, loopVars, businessUrls, visitVars, evalVars,
                   extractedData, outputVars>>

\* const page = await browser.newPage(): before the try block, so a rejection
\* here leaves run() without reaching the finally block
NewPage(ok) ==
    /\ pc = "newPage"
    /\ pc' = IF ok THEN "gotoMaps" ELSE "rejected"
    /\ UNCHANGED <<sessionVars, usedAfterClose, feedFailed, collectCalled, configVars,
                   feedVars, loopVars, businessUrls, visitVars, evalVars,
                   extractedData, outputVars>>

\* await page.goto('https://www.google.com/maps?hl=en', ...)
GotoMaps(ok) ==
    /\ pc = "gotoMaps"
    /\ PageOp
    /\ pc' = IF ok THEN "search" ELSE "fatal"
    /\ UNCHANGED <<sessionVars, feedFailed, collectCalled, configVars,
                   feedVars, loopVars, businessUrls, visitVars, evalVars,
                   extractedData, outputVars>>

\* waitForSelector('#searchboxinput'), page.type, keyboard.press('Enter')
SubmitQuery(ok) ==
    /\ pc = "search"
    /\ PageOp
    /\ pc' = IF ok THEN "waitFeed" ELSE "fatal"
    /\ UNCHANGED <<sessionVars, feedFailed, collectCalled, configVars,
                   feedVars, loopVars, businessUrls, visitVars, evalVars,
                   extractedData, outputVars>>

\* WaitFeed with the timeout logged and not thrown again: the run goes on
WaitFeedSwallowed(found, as, height) ==
    /\ pc = "waitFeed"
    /\ PageOp
    /\ anchors' = IF found THEN as ELSE <<>>
    /\ scrollHeight' = IF found THEN height ELSE clientHeight
    /\ scrollTop' = 0
    /\ feedFailed' = ~found
    /\ pc' = "collect"
    /\ UNCHANGED <<sessionVars, collectCalled, configVars, loopVars, businessUrls,
                   visitVars, evalVars, extractedData, outputVars>>

\* await page.waitForSelector(feedSelector, { timeout: 15000 }): the feed
\* appears, with some anchors rendered, or the wait times out and the error
\* is thrown again
WaitFeed(found, as, height) ==
    /\ pc = "waitFeed"
    /\ PageOp
    /\ IF found
       THEN /\ anchors' = as
            /\ scrollHeight' = height
            /\ scrollTop' = 0
            /\ feedFailed' = FALSE
            /\ pc' = "collect"
       ELSE /\ FeedGone
            /\ feedFailed' = TRUE
            /\ pc' = "fatal"
    /\ UNCHANGED <<sessionVars, collectCalled, configVars, loopVars, businessUrls,
                   visitVars, evalVars, extractedData, outputVars>>

\* ------------------------------------------------------------------------
\* collectUrls(page, feedSelector, maxItems), called with CONFIG.maxResults
\* ------------------------------------------------------------------------

\* const container = document.querySelector(selector); if (!container) return;
\* let retries = 0
CollectStart(present) ==
    /\ pc = "collect"
    /\ PageOp
    /\ collectCalled' = TRUE
    /\ sh' = 0
    /\ retries' = 0
    /\ iters' = 0
    /\ wiggles' = 0
    /\ extentChanged' = FALSE
    /\ stop' = IF present THEN "none" ELSE "nocontainer"
    /\ pc' = IF present THEN "scroll" ELSE "hrefs"
    /\ UNCHANGED <<sessionVars, feedFailed, configVars, feedVars, envStatic,
                   businessUrls, visitVars, evalVars, extractedData, outputVars>>

\* const sh = container.scrollHeight; container.scrollBy(0, distance)
ScrollBy ==
    /\ pc = "scroll"
    /\ sh' = scrollHeight
    /\ scrollTop' = clampTop(scrollTop + distance, scrollHeight)
    /\ pc' = "settle"
    /\ UNCHANGED <<sessionVars, usedAfterClose, feedFailed, collectCalled, configVars,
                   anchors, scrollHeight, retries, iters, wiggles, extentChanged,
                   envStatic, stop, businessUrls, visitVars, evalVars, extractedData, outputVars>>

\* if (count >= max) break
targetReached(count, max) == count >= max

\* the hard stop one retry early: retries >= 8
exhaustedEarly(r) == r >= hardCap

\* the hard stop one retry late: retries > 9
exhaustedLate(r) == r > hardCap + 1

\* if (retries > 8) break
exhausted(r) == r > hardCap

\* the end detection resetting only when the extent grew: scrollHeight <= sh
extentNotGrown(height, before) == height <= before

\* if (container.scrollHeight === sh)
extentUnchanged(height, before) == height = before

\* no wiggle at all
wiggleDueNever(r) == FALSE

\* the wiggle at every retry
wiggleDueAlways(r) == r >= 1

\* if (retries === 2)
wiggleDue(r) == r = wiggleAt

\* the statements after the settle wait, given what the page did during the
\* wait (as: the anchors now rendered, height: the scrollHeight now):
\*   const count = ...length; if (count >= max) break;
\*   if (container.scrollHeight === sh) { retries++; wiggle; hard stop }
\*   else retries = 0
Settle(as, height) ==
    /\ pc = "settle"
    /\ anchors' = as
    /\ scrollHeight' = height
    /\ iters' = Min(iters + 1, IterCap)
    /\ envStatic' = (envStatic /\ as = anchors /\ height = scrollHeight)
    /\ LET count == Len(as)
           top == clampTop(scrollTop, height)
       IN  IF targetReached(count, maxResults)
           THEN /\ retries' = retries
                /\ extentChanged' = extentChanged
                /\ scrollTop' = top
                /\ wiggles' = wiggles
                /\ stop' = "target"
                /\ pc' = "hrefs"
           ELSE IF extentUnchanged(height, sh)
           THEN /\ retries' = retries + 1
                /\ extentChanged' = extentChanged
                /\ scrollTop' = IF wiggleDue(retries + 1)
                                THEN clampTop(top - wiggle, height) ELSE top
                /\ wiggles' = IF wiggleDue(retries + 1)
                              THEN Min(wiggles + 1, WiggleCap) ELSE wiggles
                /\ stop' = IF exhausted(retries + 1) THEN "exhausted" ELSE "none"
                /\ pc' = IF exhausted(retries + 1) THEN "hrefs" ELSE "scroll"
           ELSE /\ retries' = 0
                /\ extentChanged' = TRUE
                /\ scrollTop' = top
                /\ wiggles' = wiggles
                /\ stop' = "none"
                /\ pc' = "scroll"
    /\ UNCHANGED <<sessionVars, usedAfterClose, feedFailed, collectCalled, configVars,
                   sh, businessUrls, visitVars, evalVars, extractedData, outputVars>>

\* const hrefs = await page.$$eval(...); hrefs.forEach(h => urls.add(h));
\* return Array.from(urls).slice(0, maxItems)
\* (as: the anchors rendered when $$eval reads them)
CollectHrefs(as) ==
    /\ pc = "hrefs"
    /\ PageOp
    /\ anchors' = as
    /\ envStatic' = (envStatic /\ as = anchors)
    /\ businessUrls' = collected(as, maxResults)
    /\ pc' = "collected"
    /\ UNCHANGED <<sessionVars, feedFailed, collectCalled, configVars, scrollHeight,
                   scrollTop, sh, retries, iters, wiggles, extentChanged, stop, visitVars,
                   evalVars, extractedData, outputVars>>

\* ------------------------------------------------------------------------
\* run(): phase 2, the batches
\* ------------------------------------------------------------------------

\* batches that overlap by one candidate
batchOverlap == SubSeq(businessUrls, i + 1, Min(i + batchSize + 1, Len(businessUrls)))

\* const batch = businessUrls.slice(i, i + CONFIG.batchSize)
batch == SubSeq(businessUrls, i + 1, Min(i + batchSize, Len(businessUrls)))

\* for (let i = 0; ...): collectUrls has returned and its locals are gone; the
\* results page is not read again
StartBatches ==
    /\ pc = "collected"
    /\ i' = 0
    /\ FeedGone
    /\ LoopReset
    /\ pc' = "batchLoop"
    /\ UNCHANGED <<sessionVars, usedAfterClose, feedFailed, collectCalled, configVars,
                   businessUrls, j, url, visited, outcomes, doc, h1TimedOut, evalVars,
                   extractedData, outputVars>>

\* i < businessUrls.length
BatchLoop ==
    /\ pc = "batchLoop"
    /\ j' = 0
    /\ pc' = IF i < Len(businessUrls) THEN "itemLoop" ELSE "output"
    /\ UNCHANGED <<sessionVars, usedAfterClose, feedFailed, collectCalled, configVars,
                   feedVars, loopVars, businessUrls, i, url, visited, outcomes, doc, h1TimedOut,
                   evalVars, extractedData, outputVars>>

\* j < batch.length; const url = batch[j]
ItemLoop ==
    /\ pc = "itemLoop"
    /\ IF j < Len(batch)
       THEN /\ url' = batch[j + 1]
            /\ pc' = "goto"
       ELSE /\ url' = ""
            /\ pc' = "batchEnd"
    /\ h1TimedOut' = FALSE
    /\ doc' = NoDoc
    /\ UNCHANGED <<sessionVars, usedAfterClose, feedFailed, collectCalled, configVars,
                   feedVars, loopVars, businessUrls, i, j, visited, outcomes, evalVars,
                   extractedData, outputVars>>

\* Goto without the try of the candidate: a rejection reaches the outer catch
GotoEscalates(ok, d) ==
    /\ pc = "goto"
    /\ PageOp
    /\ visited' = Append(visited, url)
    /\ doc' = IF ok THEN d ELSE NoDoc
    /\ pc' = IF ok THEN "waitH1" ELSE "fatal"
    /\ UNCHANGED <<sessionVars, feedFailed, collectCalled, configVars, feedVars,
                   loopVars, businessUrls, i, j, url, outcomes, h1TimedOut, evalVars,
                   extractedData, outputVars>>

\* await page.goto(url, { waitUntil: 'domcontentloaded', timeout: 45000 });
\* a timeout or any other rejection is caught by the catch of the candidate
Goto(ok, d) ==
    /\ pc = "goto"
    /\ PageOp
    /\ visited' = Append(visited, url)
    /\ IF ok
       THEN /\ doc' = d
            /\ j' = j
            /\ outcomes' = outcomes
            /\ pc' = "waitH1"
       ELSE /\ doc' = NoDoc
            /\ j' = j + 1
            /\ outcomes' = Append(outcomes, [url |-> url, kind |-> "Error"])
            /\ pc' = "itemLoop"
    /\ UNCHANGED <<sessionVars, feedFailed, collectCalled, configVars, feedVars,
                   loopVars, businessUrls, i, url, h1TimedOut, evalVars,
                   extractedData, outputVars>>

\* WaitH1 with the timeout left to the catch of the candidate: logged as an
\* error, and the candidate is skipped without extraction
WaitH1Skips(d) ==
    /\ pc = "waitH1"
    /\ PageOp
    /\ doc' = d
    /\ h1TimedOut' = (d.h1 = Null)
    /\ IF d.h1 = Null
       THEN /\ j' = j + 1
            /\ outcomes' = Append(outcomes, [url |-> url, kind |-> "Error"])
            /\ pc' = "itemLoop"
       ELSE /\ j' = j
            /\ outcomes' = outcomes
            /\ pc' = "delay"
    /\ UNCHANGED <<sessionVars, feedFailed, collectCalled, configVars, feedVars,
                   loopVars, businessUrls, i, url, visited, evalVars,
                   extractedData, outputVars>>

\* what a page that is still rendering may become: its h1 may appear
LateRender(d) == {d} \cup {e \in RunDocs : d.h1 = Null /\ e.els = d.els}

\* try { await page.waitForSelector('h1', { timeout: 8000 }) } catch (e) { log }
WaitH1(d) ==
    /\ pc = "waitH1"
    /\ PageOp
    /\ doc' = d
    /\ h1TimedOut' = (d.h1 = Null)
    /\ pc' = "delay"
    /\ UNCHANGED <<sessionVars, feedFailed, collectCalled, configVars, feedVars,
                   loopVars, businessUrls, i, j, url, visited, outcomes, evalVars,
                   extractedData, outputVars>>

\* await delay(3000), during which the page may go on rendering
Delay(d) ==
    /\ pc = "delay"
    /\ doc' = d
    /\ pc' = "extract"
    /\ UNCHANGED <<sessionVars, usedAfterClose, feedFailed, collectCalled, configVars,
                   feedVars, loopVars, businessUrls, i, j, url, visited, outcomes, h1TimedOut,
                   evalVars, extractedData, outputVars>>

\* ------------------------------------------------------------------------
\* extractDetails(page, url): the function evaluated in the page
\* ------------------------------------------------------------------------

\* const elements = Array.from(document.querySelectorAll(...)), in document order
elements(d) == SelectSeq(d.els, isScanned)

\* let name = ...; name = cleanText(name); if (!name) return null;
\* rating, reviews; let address = 'N/A'; let phone = 'N/A'; let website = 'N/A'
EvalStart ==
    /\ pc = "extract"
    /\ scan.pc = "start"
    /\ PageOp
    /\ LET name == nameOf(doc)
       IN  IF name = <<>>
           THEN /\ data' = NullData
                /\ scan' = [pc |-> "returned"]
           ELSE /\ data' = data
                /\ scan' = [pc |-> "scan", idx |-> 1, name |-> name,
                            rating |-> ratingOf(doc), reviews |-> reviewsOf(doc),
                            fields |-> [address |-> NA, phone |-> NA, website |-> NA]]
    /\ UNCHANGED <<pc, sessionVars, feedFailed, collectCalled, configVars, feedVars,
                   loopVars, businessUrls, visitVars, extractedData, outputVars>>

\* one call of the callback of elements.forEach
ScanElement ==
    /\ pc = "extract"
    /\ scan.pc = "scan"
    /\ scan.idx <= Len(elements(doc))
    /\ scan' = [scan EXCEPT !.idx = @ + 1,
                            !.fields = scanElement(@, elements(doc)[scan.idx])]
    /\ UNCHANGED <<pc, sessionVars, usedAfterClose, feedFailed, collectCalled,
                   configVars, feedVars, loopVars, businessUrls, visitVars, data,
                   extractedData, outputVars>>

\* the website fallback and return { name, phone, address, website, rating, reviews, url }
EvalFinish ==
    /\ pc = "extract"
    /\ scan.pc = "scan"
    /\ scan.idx > Len(elements(doc))
    /\ data' = Record(scan.name, scan.fields, scan.rating, scan.reviews,
                      websiteFallback(doc, scan.fields.website), url)
    /\ scan' = [pc |-> "returned"]
    /\ UNCHANGED <<pc, sessionVars, usedAfterClose, feedFailed, collectCalled,
                   configVars, feedVars, loopVars, businessUrls, visitVars,
                   extractedData, outputVars>>

\* page.evaluate rejects (the page navigated, the target closed): caught by
\* the catch of the candidate
EvalThrows ==
    /\ pc = "extract"
    /\ scan.pc = "start"
    /\ PageOp
    /\ j' = j + 1
    /\ outcomes' = Append(outcomes, [url |-> url, kind |-> "Error"])
    /\ pc' = "itemLoop"
    /\ UNCHANGED <<sessionVars, feedFailed, collectCalled, configVars, feedVars,
                   loopVars, businessUrls, i, url, visited, doc, h1TimedOut, evalVars,
                   extractedData, outputVars>>

\* accepted without the test for the placeholder title
acceptedAnyName(d) == ~d.isNull /\ d.name # <<>>

\* data && data.name && data.name !== 'Google Maps'
accepted(d) == ~d.isNull /\ d.name # <<>> /\ d.name # GoogleMaps

\* if (accepted) extractedData.push(data) else log 'Skipped'
HandleData ==
    /\ pc = "extract"
    /\ scan.pc = "returned"
    /\ extractedData' = IF accepted(data) THEN Append(extractedData, data)
                        ELSE extractedData
    /\ outcomes' = Append(outcomes, [url |-> url,
                                     kind |-> IF accepted(data) THEN "Extracted"
                                              ELSE "Skipped"])
    /\ scan' = ScanIdle
    /\ data' = NullData
    /\ j' = j + 1
    /\ pc' = "itemLoop"
    /\ UNCHANGED <<sessionVars, usedAfterClose, feedFailed, collectCalled, configVars,
                   feedVars, loopVars, businessUrls, i, url, visited, doc, h1TimedOut,
                   outputVars>>

\* if (i + CONFIG.batchSize < businessUrls.length) await delay(10000); i += batchSize
BatchEnd ==
    /\ pc = "batchEnd"
    /\ i' = i + batchSize
    /\ pc' = "batchLoop"
    /\ UNCHANGED <<sessionVars, usedAfterClose, feedFailed, collectCalled, configVars,
                   feedVars, loopVars, businessUrls, j, url, visited, outcomes, doc, h1TimedOut,
                   evalVars, extractedData, outputVars>>

\* ------------------------------------------------------------------------
\* run(): phase 3 and the end of the run
\* ------------------------------------------------------------------------

\* if (extractedData.length > 0) ... else console.log('No data extracted.')
Output ==
    /\ pc = "output"
    /\ pc' = IF Len(extractedData) > 0 THEN "csv" ELSE "finally"
    /\ UNCHANGED <<sessionVars, usedAfterClose, feedFailed, collectCalled, configVars,
                   feedVars, loopVars, businessUrls, visitVars, evalVars,
                   extractedData, outputVars>>

\* await writeToCsv(extractedData): a rejection reaches the outer catch
WriteCsv(ok) ==
    /\ pc = "csv"
    /\ csvWritten' = ok
    /\ pc' = IF ok THEN "pdf" ELSE "fatal"
    /\ UNCHANGED <<sessionVars, usedAfterClose, feedFailed, collectCalled, configVars,
                   feedVars, loopVars, businessUrls, visitVars, evalVars,
                   extractedData, pdfWritten, notified>>

\* await saveToPdf(browser, extractedData): opens a page of its own and
\* catches its own errors
SaveToPdf(ok) ==
    /\ pc = "pdf"
    /\ PageOp
    /\ pdfWritten' = ok
    /\ pc' = "notify"
    /\ UNCHANGED <<sessionVars, feedFailed, collectCalled, configVars, feedVars,
                   loopVars, businessUrls, visitVars, evalVars, extractedData,
                   csvWritten, notified>>

\* await sendTelegramReport(extractedData.length): skipped without
\* credentials, and catches its own errors
SendTelegramReport(credentials, ok) ==
    /\ pc = "notify"
    /\ notified' = (credentials /\ ok)
    /\ pc' = "finally"
    /\ UNCHANGED <<sessionVars, usedAfterClose, feedFailed, collectCalled, configVars,
                   feedVars, loopVars, businessUrls, visitVars, evalVars,
                   extractedData, csvWritten, pdfWritten>>

\* catch (error) { console.error('Fatal Error:', error) }
Fatal ==
    /\ pc = "fatal"
    /\ pc' = "finally"
    /\ UNCHANGED <<sessionVars, usedAfterClose, feedFailed, collectCalled, configVars,
                   feedVars, loopVars, businessUrls, visitVars, evalVars,
                   extractedData, outputVars>>

\* finally { await browser.close() }
Close ==
    /\ pc = "finally"
    /\ browser' = "closed"
    /\ closeCalls' = closeCalls + 1
    /\ pc' = "done"
    /\ UNCHANGED <<usedAfterClose, feedFailed, collectCalled, configVars, feedVars,
                   loopVars, businessUrls, visitVars, evalVars, extractedData,
                   outputVars>>

\* ------------------------------------------------------------------------
\* Specifications
\* ------------------------------------------------------------------------

Next ==
    \/ \E ok \in BOOLEAN : Launch(ok)
    \/ \E ok \in BOOLEAN : NewPage(ok)
    \/ \E ok \in BOOLEAN : GotoMaps(ok)
    \/ \E ok \in BOOLEAN : SubmitQuery(ok)
    \/ \E found \in BOOLEAN, as \in SeqsUpTo(Hrefs, MaxAnchors), height \in Extents :
          WaitFeed(found, as, height)
    \/ \E present \in BOOLEAN : CollectStart(present)
    \/ ScrollBy
    \/ \E as \in Grow(anchors), height \in Extents : Settle(as, height)
    \/ \E as \in Grow(anchors) : CollectHrefs(as)
    \/ StartBatches
    \/ BatchLoop
    \/ ItemLoop
    \/ \E ok \in BOOLEAN, d \in RunDocs : Goto(ok, d)
    \/ \E d \in LateRender(doc) : WaitH1(d)
    \/ \E d \in LateRender(doc) : Delay(d)
    \/ EvalStart
    \/ ScanElement
    \/ EvalFinish
    \/ EvalThrows
    \/ HandleData
    \/ BatchEnd
    \/ Output
    \/ \E ok \in BOOLEAN : WriteCsv(ok)
    \/ \E ok \in BOOLEAN : SaveToPdf(ok)
    \/ \E credentials \in BOOLEAN, ok \in BOOLEAN : SendTelegramReport(credentials, ok)
    \/ Fatal
    \/ Close

\* a run of the program
Spec == Init /\ [][Next]_vars

\* a run of the program in which the outer catch block and the finally block
\* run to their end: console.error returns and browser.close() settles
FairSpec == Spec /\ WF_vars(Fatal) /\ WF_vars(Close)

\* one step of the scroll loop of collectUrls
Iterate == ScrollBy \/ \E as \in Grow(anchors), height \in Extents : Settle(as, height)

\* a run of the program in which the function evaluated by collectUrls keeps
\* running: scrollBy returns and the timer of the settle wait fires
ScrollFairSpec == Spec /\ WF_vars(Iterate)

\* extractDetails alone, on every detail page of Docs
ExtractInit ==
    /\ pc = "extract"
    /\ maxResults = MaxItemsBound
    /\ batchSize = 1
    /\ browser = "open"
    /\ closeCalls = 0
    /\ usedAfterClose = FALSE
    /\ feedFailed = FALSE
    /\ collectCalled = TRUE
    /\ anchors = <<>>
    /\ scrollHeight = clientHeight
    /\ scrollTop = 0
    /\ sh = 0
    /\ retries = 0
    /\ iters = 0
    /\ wiggles = 0
    /\ extentChanged = FALSE
    /\ envStatic = TRUE
    /\ stop = "none"
    /\ url \in Hrefs
    /\ businessUrls = <<url>>
    /\ i = 0
    /\ j = 0
    /\ visited = <<url>>
    /\ outcomes = <<>>
    /\ doc \in Docs
    /\ h1TimedOut = FALSE
    /\ scan = ScanIdle
    /\ data = NullData
    /\ extractedData = <<>>
    /\ csvWritten = FALSE
    /\ pdfWritten = FALSE
    /\ notified = FALSE

ExtractNext == EvalStart \/ ScanElement \/ EvalFinish

ExtractSpec == ExtractInit /\ [][ExtractNext]_vars

\* ------------------------------------------------------------------------
\* Properties of collectUrls
\* ------------------------------------------------------------------------

NoDuplicates(s) == \A a, b \in 1..Len(s) : s[a] = s[b] => a = b

\* the scroll loop of collectUrls is running
InLoop == pc \in {"scroll", "settle"}

\* the scroll loop of collectUrls ran and has ended
LoopEnded == pc \in {"hrefs", "collected"} /\ stop \in {"target", "exhausted"}

\* C1: for every maxItems >= 0 and every list of rendered anchors, also one
\* that repeats an href, the sequence collectUrls returns holds no href twice
\* and is at most maxItems long.
C1_NoDuplicatesWithinMax ==
    /\ NoDuplicates(businessUrls)
    /\ Len(businessUrls) <= maxResults
    /\ pc = "collected" => businessUrls = slice(addAll(<<>>, anchors), maxResults)

\* collectUrls returned from anchors that repeat an href and hold more distinct
\* hrefs than maxItems
C1_Witness ==
    /\ pc = "collected"
    /\ ~NoDuplicates(anchors)
    /\ maxResults > 0
    /\ Len(addAll(<<>>, anchors)) > maxResults
    /\ Len(businessUrls) = maxResults

\* C2 (a): while scrollHeight has never differed from sh, every iteration
\* counts as a retry, the loop is over after hardCap + 1 iterations, and the
\* exhaustion break is taken exactly when retries exceeds hardCap.
C2_ExhaustionBound ==
    /\ (InLoop \/ LoopEnded) /\ ~extentChanged =>
          /\ iters <= hardCap + 1
          /\ iters = hardCap + 1 => ~InLoop
          /\ stop # "target" => retries = iters
    /\ InLoop => retries <= hardCap
    /\ stop = "exhausted" => retries = hardCap + 1

\* C2 (b): an iteration that counts maxItems anchors or more ends the loop.
C2_TargetStops ==
    pc = "settle" /\ pc' # "settle" /\ Len(anchors') >= maxResults
        => pc' = "hrefs" /\ stop' = "target"

\* C2: the scroll loop ends in both cases: (a) with a scrollHeight that never
\* changes, once retries exceeds the hard cap of 8, that is after at most 9
\* iterations; (b) in the very iteration that counts at least maxItems anchors.
C2_LoopTerminates == [](C2_ExhaustionBound) /\ [][C2_TargetStops]_vars

\* the loop ended by the hard stop after 9 iterations of an unchanged scrollHeight
C2_Witness ==
    /\ pc = "hrefs"
    /\ stop = "exhausted"
    /\ ~extentChanged
    /\ iters = hardCap + 1

\* C7: a container that shows k distinct anchors at once, k < maxItems, and
\* never changes again: collectUrls returns exactly these k hrefs in document
\* order, and only after the 9 iterations of the exhaustion stop.
C7_StaticFeed ==
    (/\ pc = "collected"
     /\ stop # "nocontainer"
     /\ envStatic
     /\ NoDuplicates(anchors)
     /\ Len(anchors) < maxResults)
        => /\ businessUrls = anchors
           /\ stop = "exhausted"
           /\ retries = hardCap + 1
           /\ iters = hardCap + 1

\* collectUrls returned two distinct hrefs of a feed that never changed, maxItems 3
C7_Witness ==
    /\ pc = "collected"
    /\ stop = "exhausted"
    /\ envStatic
    /\ Len(anchors) = 2
    /\ anchors[1] # anchors[2]
    /\ maxResults = 3
    /\ businessUrls = anchors

\* ------------------------------------------------------------------------
\* Properties of run()
\* ------------------------------------------------------------------------

\* run() is past the batches of phase 2, or never reached them
PastBatches == pc \in {"output", "csv", "pdf", "notify", "fatal", "finally", "done"}

\* run() is working on one candidate
AtCandidate == pc \in {"itemLoop", "goto", "waitH1", "delay", "extract"}

Last(s) == s[Len(s)]

\* C3 (safety): after the wait for the feed timed out, collectUrls is never
\* called, no candidate is visited, nothing is exported or notified, and run()
\* is in its catch, its finally, or over.
C3_NothingAfterFeedTimeout ==
    feedFailed =>
        /\ ~collectCalled
        /\ visited = <<>>
        /\ extractedData = <<>>
        /\ ~csvWritten /\ ~pdfWritten /\ ~notified
        /\ pc \in {"fatal", "finally", "done"}

\* C3: when the results container never appears within the wait, the run
\* fails fast: collectUrls is not called, no candidate page is visited, no
\* export or notification is produced, and the run ends.
C3_FailFast == [](C3_NothingAfterFeedTimeout) /\ (feedFailed ~> pc = "done")

\* the run ended after the wait for the feed timed out
C3_Witness ==
    /\ feedFailed
    /\ pc = "done"
    /\ browser = "closed"

\* C4 (state): the candidates are visited in the order discovered, the batches
\* end only when every candidate was visited and reported once, and no record
\* belongs to a candidate reported as an error.
C4_AllVisited ==
    /\ Len(visited) <= Len(businessUrls)
    /\ visited = SubSeq(businessUrls, 1, Len(visited))
    /\ PastBatches =>
          /\ visited = businessUrls
          /\ Len(outcomes) = Len(businessUrls)
          /\ \A k \in 1..Len(outcomes) : outcomes[k].url = businessUrls[k]
    /\ \A k \in 1..Len(outcomes) :
          outcomes[k].kind = "Error" =>
              \A r \in 1..Len(extractedData) : extractedData[r].url # outcomes[k].url

\* C4 (step): no step of a candidate reaches the outer catch, and the step that
\* reports an error leaves the result list as it is and goes on with the loop.
C4_ErrorSkips ==
    /\ AtCandidate => pc' # "fatal"
    /\ (outcomes' # outcomes /\ Last(outcomes').kind = "Error") =>
          /\ extractedData' = extractedData
          /\ j' = j + 1
          /\ pc' = "itemLoop"

\* C4: an error of one candidate never becomes an error of the run: for a
\* candidate whose navigation times out or whose extraction throws, no record
\* is appended, the result list stays as it is, and every later candidate is
\* still visited.
C4_CandidateErrorContained == [](C4_AllVisited) /\ [][C4_ErrorSkips]_vars

\* the first candidate ended in an error and the second one was extracted
C4_Witness ==
    /\ pc = "done"
    /\ Len(businessUrls) >= 2
    /\ Len(outcomes) >= 2
    /\ outcomes[1].kind = "Error"
    /\ outcomes[2].kind = "Extracted"
    /\ Len(extractedData) = 1
    /\ extractedData[1].url = businessUrls[2]

\* C5: on every path of run() after the browser is launched, browser.close()
\* is called exactly once, and no page operation follows it.
C5_SessionReleased ==
    /\ closeCalls <= 1
    /\ ~usedAfterClose
    /\ (pc \in {"done", "rejected"} /\ browser # "none") => closeCalls = 1

\* C6 (step): extraction returned null, an empty name or the placeholder
\* title, and the step that handles it adds nothing to the result list.
C6_RejectedAddsNothing ==
    (/\ pc = "extract"
     /\ scan.pc = "returned"
     /\ pc' = "itemLoop"
     /\ (data.isNull \/ data.name = <<>> \/ data.name = GoogleMaps))
        => extractedData' = extractedData

\* C6: every record of the result list has a non-empty name other than
\* 'Google Maps'; a candidate whose extraction returns null, an empty name or
\* the placeholder title adds nothing to the list.
C6_RecordsNamed ==
    /\ [](\A k \in 1..Len(extractedData) :
             /\ ~extractedData[k].isNull
             /\ extractedData[k].name # <<>>
             /\ extractedData[k].name # GoogleMaps)
    /\ [][C6_RejectedAddsNothing]_vars

\* a page titled 'Google Maps' was extracted and skipped, after a record was kept
C6_Witness ==
    /\ pc = "itemLoop"
    /\ nameOf(doc) = GoogleMaps
    /\ outcomes # <<>>
    /\ Last(outcomes).kind = "Skipped"
    /\ Len(extractedData) >= 1

\* ------------------------------------------------------------------------
\* Properties of extractDetails
\* ------------------------------------------------------------------------

\* the evaluated function has returned
Returned == pc = "extract" /\ scan.pc = "returned"

\* the heading is absent, empty or made of whitespace only
HeadingBlank(d) == d.h1 = Null \/ \A k \in 1..Len(d.h1) : d.h1[k] \in WhiteSpace

\* C8: extractDetails returns null when the h1 is absent, empty or whitespace
\* only, and returns a record whenever the normalized heading is not empty,
\* even if every other field keeps its default.
C8_NullIffHeadingBlank ==
    Returned =>
        /\ data.isNull <=> HeadingBlank(doc)
        /\ ~data.isNull =>
              /\ data.name # <<>>
              /\ data.name = cleanText(doc.h1)
              /\ data.url = url

\* a record was returned with every field but the name at its default
C8_Witness ==
    /\ Returned
    /\ ~data.isNull
    /\ data.name = AcmePlumbing
    /\ data.phone = NA /\ data.address = NA /\ data.website = NA
    /\ data.rating = NA /\ data.reviews = Zero

\* a non-negative integer in decimal digits
IsNatural(s) == s # <<>> /\ \A k \in 1..Len(s) : s[k] \in Digits

\* C9: for every label of the reviews element the reviews field is a
\* non-negative integer, the first run of digits and commas of the label with
\* the commas removed ("1,234 reviews" gives 1234), and 0 without a reviews
\* element; the rating is the leading token of the stars label ("4.5 stars"
\* gives "4.5") and "N/A" without a stars element.
C9_ReviewsAndRating ==
    (Returned /\ ~data.isNull) =>
        LET reviewsEl == SelectSeq(doc.els, isReviewsEl)
            ratingEl == SelectSeq(doc.els, isRatingEl)
        IN  /\ IsNatural(data.reviews)
            /\ reviewsEl = <<>> => data.reviews = Zero
            /\ (reviewsEl # <<>> /\ Head(reviewsEl).aria = Reviews1234)
                   => data.reviews = Count1234
            /\ ratingEl = <<>> => data.rating = NA
            /\ ratingEl # <<>> => data.rating = firstToken(Head(ratingEl).aria)
            /\ (ratingEl # <<>> /\ Head(ratingEl).aria = Stars45) => data.rating = Rating45

\* the callback of forEach runs on the element at scan.idx
ScanStep ==
    /\ pc = "extract"
    /\ scan.pc = "scan"
    /\ scan.idx <= Len(elements(doc))
    /\ scan'.pc = "scan"
    /\ scan'.idx = scan.idx + 1

\* the element the callback runs on, and its text with the Phone label removed
scannedEl == elements(doc)[scan.idx]
possiblePhoneOf(el) == removeLabel(contentOf(el), PhoneWord)

HasDigit(s) == \E k \in 1..Len(s) : s[k] \in Digits

PhoneClass == Digits \cup {"+", "-", "(", ")", " ", "\t", "\n", "\r"}

\* s has 5 or more consecutive characters of digits, + - ( ) and whitespace
HasPhoneRun(s) ==
    \E a, b \in 1..Len(s) : b - a >= 4 /\ \A m \in a..b : s[m] \in PhoneClass

\* C10 as stated: an element classified as phone whose text without the label
\* holds no digit never sets the phone field, and one whose text is at least
\* 5 characters of digits, + - ( ) and spaces sets it.
C10_NoDigitNeverPopulates ==
    [][(ScanStep /\ isPhoneEl(scannedEl)) =>
          LET p == possiblePhoneOf(scannedEl)
          IN  /\ ~HasDigit(p) => scan'.fields.phone = scan.fields.phone
              /\ (Len(p) >= 5 /\ \A k \in 1..Len(p) : p[k] \in PhoneClass)
                     => scan'.fields.phone = p]_vars

\* C10 as amended: an element sets the phone field exactly when it is
\* classified as phone and its text without the label holds 5 or more
\* consecutive characters of digits, + - ( ) and spaces; "Call us now" does
\* not, "+1 (555) 123-4567" does, and so does a text without any digit such
\* as "- - -".
C10_PhoneRunPopulates ==
    [][ScanStep =>
          LET p == possiblePhoneOf(scannedEl)
          IN  /\ (isPhoneEl(scannedEl) /\ HasPhoneRun(p)) => scan'.fields.phone = p
              /\ ~(isPhoneEl(scannedEl) /\ HasPhoneRun(p))
                     => scan'.fields.phone = scan.fields.phone
              /\ (isPhoneEl(scannedEl) /\ p = CallUsNow)
                     => scan'.fields.phone = scan.fields.phone
              /\ (isPhoneEl(scannedEl) /\ p = PhoneNumber)
                     => scan'.fields.phone = PhoneNumber]_vars

\* "+1 (555) 123-4567" set the phone field and "Call us now", scanned after it,
\* left it alone
C10_Witness ==
    /\ pc = "extract"
    /\ scan.pc = "scan"
    /\ doc.els = <<phoneBtn, callBtn>>
    /\ scan.idx = 3
    /\ scan.fields.phone = PhoneNumber

\* the text of an element with the Address label removed
possibleAddrOf(el) == removeLabel(contentOf(el), AddressWord)

\* the positions, in the scanned elements of d, of the elements classified as
\* address whose text without the label is longer than 5 characters
ValidAddressAt(d) ==
    {k \in 1..Len(elements(d)) :
        /\ isAddressEl(elements(d)[k])
        /\ Len(possibleAddrOf(elements(d)[k])) > 5}

\* the address the scan of d is expected to end with
LastValidAddress(d) ==
    IF ValidAddressAt(d) = {} THEN NA
    ELSE possibleAddrOf(elements(d)[CHOOSE k \in ValidAddressAt(d) :
                                       \A m \in ValidAddressAt(d) : m <= k])

\* C11 (step): a candidate address of 5 characters or fewer leaves the address
\* field as it was.
C11_ShortAddressKept ==
    (ScanStep /\ isAddressEl(scannedEl) /\ Len(possibleAddrOf(scannedEl)) <= 5)
        => scan'.fields.address = scan.fields.address

\* C11: after the scan the address is the text, without its label, of the last
\* element in document order that is classified as address and whose text
\* without the label is longer than 5 characters, and "N/A" when there is
\* none; a candidate of 5 characters or fewer never overwrites an address.
C11_LastValidAddressWins ==
    /\ []((Returned /\ ~data.isNull) => data.address = LastValidAddress(doc))
    /\ [][C11_ShortAddressKept]_vars

\* two valid addresses were scanned and the second one was returned
C11_Witness ==
    /\ Returned
    /\ ~data.isNull
    /\ doc.els = <<addrBtn, addrTextBtn>>
    /\ data.address = HillRoad

\* the website link of the scenario, inside or outside div[role="main"]
IsAcmeLink(el) == el \in {siteLink, siteLinkOutside}

\* the page of the scenario: the heading "Acme Plumbing", one link with
\* data-item-id 'authority' and href "https://acme.example" anywhere in the
\* page, and otherwise only links that carry no label and no data-item-id
AcmePage(d) ==
    /\ d.h1 = AcmePlumbing
    /\ Len(SelectSeq(d.els, IsAcmeLink)) = 1
    /\ \A k \in 1..Len(d.els) : IsAcmeLink(d.els[k]) \/ d.els[k] = otherLink

ScanEnded == pc = "extract" /\ scan.pc = "scan" /\ scan.idx > Len(elements(doc))

\* the scan left the website unresolved: it holds no website value that is
\* not empty
Unresolved(website) == website = NA \/ website = <<>>

\* the outbound links of d with data-item-id 'authority', in document order
AuthorityLinks(d) == SelectSeq(d.els, isWebLink)

\* C18: whenever the scan leaves the website unresolved and the page holds an
\* outbound link with data-item-id 'authority', the website returned is the
\* href of that link.
C18_FallbackWhenUnresolved ==
    [][(/\ ScanEnded
        /\ Unresolved(scan.fields.website)
        /\ AuthorityLinks(doc) # <<>>
        /\ scan'.pc = "returned")
           => data'.website = Head(AuthorityLinks(doc)).href]_vars

\* ------------------------------------------------------------------------
\* Properties of the scroll loop
\* ------------------------------------------------------------------------

\* C13: whatever the results container does, also when its scrollHeight keeps
\* changing while fewer than maxCount anchors are rendered, the scroll loop of
\* collectUrls ends after a bounded number of iterations.
C13_ScrollLoopEnds == InLoop ~> LoopEnded

\* C14 as stated: no step of the scroll loop moves the scroll position of the
\* container to a smaller offset (steps in which the container itself shrank,
\* so that the browser had to lower the position, are left aside).
C14_NeverScrollsBack ==
    [][(InLoop /\ scrollHeight' >= scrollHeight) => scrollTop' >= scrollTop]_vars

\* the step is the iteration that takes retries to 2
WiggleStep == pc = "settle" /\ retries' = retries + 1 /\ retries' = wiggleAt

\* C14 as amended: scrollBy(0, distance) never lowers the position, and an
\* iteration lowers it only in the wiggle, the iteration that takes retries to
\* 2, and then by at most 300 (or when the container itself shrank).
C14_BackOnlyInWiggle ==
    [][InLoop =>
          /\ pc = "scroll" => scrollTop' >= scrollTop
          /\ scrollTop' < scrollTop =>
                \/ scrollHeight' < scrollHeight
                \/ WiggleStep /\ scrollTop - scrollTop' <= wiggle]_vars

\* the wiggle moved the position back from 800 to 500
C14_Witness ==
    /\ pc = "scroll"
    /\ retries = wiggleAt
    /\ wiggles = 1
    /\ scrollTop = distance - wiggle

\* C15 as stated: in one call of collectUrls the backward scroll is issued at
\* most once.
C15_SingleWiggle == wiggles <= 1

\* C15 as amended: the backward scroll is issued in exactly the iterations
\* that take retries to 2, each of them before the hard stop (the loop goes
\* on), so at most once in a streak of iterations with an unchanged
\* scrollHeight, and once more in every later streak that reaches 2.
C15_WiggleAtEverySecondRetry ==
    [][InLoop =>
          /\ wiggles' # wiggles => WiggleStep /\ wiggles' = wiggles + 1
          /\ (WiggleStep /\ wiggles < WiggleCap) => wiggles' = wiggles + 1
          /\ WiggleStep => pc' = "scroll" /\ ~exhausted(retries')]_vars

\* a second backward scroll was issued, after scrollHeight changed and stalled again
C15_Witness ==
    /\ pc = "scroll"
    /\ wiggles = 2
    /\ retries = wiggleAt
    /\ extentChanged

\* an iteration of the loop that does not end by the target
EndDetection == pc = "settle" /\ stop' # "target"

\* C16 (state): retries lies in 0..9, and the loop has stopped by exhaustion
\* only with retries at 9 and fewer anchors rendered than maxCount.
C16_RetriesInRange ==
    /\ retries \in 0..(hardCap + 1)
    /\ stop = "exhausted" => retries = hardCap + 1
    /\ (pc = "hrefs" /\ stop = "exhausted") => Len(anchors) < maxResults

\* C16 as stated: retries counts the immediately preceding consecutive
\* iterations in which the extent did not grow: an iteration adds 1 when
\* scrollHeight is not above sh, and resets it to 0 when the extent grew.
C16_RetriesCountNotGrown ==
    [][EndDetection =>
          IF scrollHeight' > sh THEN retries' = 0 ELSE retries' = retries + 1]_vars

\* C16 (step): an iteration adds 1 to retries when scrollHeight equals sh and
\* resets it to 0 when scrollHeight differs from sh, larger or smaller; the
\* exhaustion stop is taken by the ninth such iteration in a row.
C16_CountsUnchanged ==
    /\ EndDetection =>
          IF scrollHeight' # sh THEN retries' = 0 ELSE retries' = retries + 1
    /\ (InLoop /\ stop' = "exhausted") =>
          /\ scrollHeight' = sh
          /\ retries = hardCap
          /\ Len(anchors') < maxResults

\* C16 as amended: the exhaustion stop is never premature: the loop stops with
\* count < maxCount only when the extent was unchanged in each of the last 9
\* iterations; retries lies in 0..9, equals the number of immediately preceding
\* consecutive iterations with an unchanged extent, and is reset to 0 by any
\* iteration in which the extent changed, whether it grew or shrank.
C16_ExhaustionNotPremature == [](C16_RetriesInRange) /\ [][C16_CountsUnchanged]_vars

\* the loop stopped by exhaustion after the extent had changed: more than 9
\* iterations, the last 9 of them with an unchanged extent
C16_Witness ==
    /\ pc = "hrefs"
    /\ stop = "exhausted"
    /\ extentChanged
    /\ retries = hardCap + 1
    /\ iters > hardCap + 1

\* C20: a stop of the scroll loop by the target-reached condition always
\* yields exactly maxCount identifiers; so whenever collectUrls returns fewer
\* than maxCount, the loop had ended by exhaustion.
C20_TargetYieldsMax ==
    (pc = "collected" /\ stop = "target") => Len(businessUrls) = maxResults

\* ------------------------------------------------------------------------
\* Properties of the candidate loop
\* ------------------------------------------------------------------------

\* the step that ends the handling of a candidate after extraction returned
HandleStep == pc = "extract" /\ scan.pc = "returned" /\ pc' = "itemLoop"

C17_SkipsStep ==
    /\ pc = "waitH1" =>
          /\ pc' = "delay"
          /\ outcomes' = outcomes
          /\ extractedData' = extractedData
    /\ (HandleStep /\ HeadingBlank(doc)) =>
          /\ extractedData' = extractedData
          /\ Last(outcomes') = [url |-> url, kind |-> "Skipped"]
          /\ j' = j + 1
    /\ (HandleStep /\ extractedData' # extractedData) => ~HeadingBlank(doc)

IndexIn(s, x) == CHOOSE k \in 1..Len(s) : s[k] = x

\* C19 (state): collectUrls is not called again; the candidates visited are a
\* prefix of the discovered sequence, each visited once, the next one only
\* after the one before was reported; the records come from discovered
\* candidates, in discovery order, at most one per candidate.
C19_InOrder ==
    /\ collectCalled => pc # "collect"
    /\ visited # <<>> => collectCalled
    /\ Len(visited) <= Len(businessUrls)
    /\ visited = SubSeq(businessUrls, 1, Len(visited))
    /\ Len(outcomes) <= Len(visited)
    /\ Len(visited) <= Len(outcomes) + 1
    /\ PastBatches => visited = businessUrls /\ Len(outcomes) = Len(visited)
    /\ Len(extractedData) <= Len(outcomes)
    /\ \A a \in 1..Len(extractedData) :
          \E k \in 1..Len(outcomes) :
              /\ outcomes[k].kind = "Extracted"
              /\ visited[k] = extractedData[a].url
    /\ \A a, b \in 1..Len(extractedData) :
          a < b => IndexIn(businessUrls, extractedData[a].url)
                       < IndexIn(businessUrls, extractedData[b].url)

\* C19 (step): the discovered sequence is set by the one call of collectUrls,
\* and the result list only grows, by one record at its end.
C19_AppendOnly ==
    /\ collectCalled' # collectCalled => pc = "collect" /\ ~collectCalled
    /\ businessUrls' # businessUrls => pc = "hrefs" /\ visited = <<>>
    /\ \/ extractedData' = extractedData
       \/ /\ Len(extractedData') = Len(extractedData) + 1
          /\ SubSeq(extractedData', 1, Len(extractedData)) = extractedData
          /\ Last(extractedData').url = url
          /\ HandleStep

\* C19: collectUrls is called once; then every discovered candidate is visited
\* exactly once, one at a time and in discovery order across all batches; the
\* result list is append-only, and the urls of its records form a subsequence
\* of the discovered sequence, at most one record per candidate.
C19_SequentialVisits == [](C19_InOrder) /\ [][C19_AppendOnly]_vars

\* three candidates in batches of two: all visited in order, the second one
\* gave no record
C19_Witness ==
    /\ pc = "done"
    /\ batchSize = 2
    /\ Len(businessUrls) = 3
    /\ visited = businessUrls
    /\ Len(extractedData) = 2
    /\ extractedData[1].url = businessUrls[1]
    /\ extractedData[2].url = businessUrls[3]

====
